---- MODULE Spec2Model ----
(***************************************************************************)
(* A model of kraken.std.cargo: the Cargo.toml manifest round-trip model   *)
(* (manifest.py) and the version bump task (cargo_bump_version_task.py).   *)
(*                                                                         *)
(* Python values are tagged tuples, so that values of different Python     *)
(* types can be compared: <<"str", s>>, <<"arr", seq>>, <<"tbl", dict>>,   *)
(* <<"none">>, <<"obj", record>> (a dataclass instance), <<"ref", id>> (a  *)
(* reference to a mutable dict on the heap) and <<"raise", exc>> (a call   *)
(* that ended in an exception).  A dict is a function from its keys.       *)
(***************************************************************************)
EXTENDS Integers, Sequences, FiniteSets, TLC

VARIABLES
    disk,        \* key/value content of the Cargo.toml file
    original,    \* key/value content of the Cargo.toml file at the start
    heap,        \* the mutable dependency tables of the loaded document, by id
    manifest,    \* the CargoManifest last built (or None)
    out,         \* the tree last returned by CargoManifest.to_json (or None)
    call,        \* the last call made: its name and the exception it raised
    pc,          \* where the bump task is in its lifecycle
    props,       \* the bump task's properties: version, registry, revert
    exit_stack   \* the contexts entered on the task's ExitStack

vars == <<disk, original, heap, manifest, out, call, pc, props, exit_stack>>

----------------------------------------------------------------------------
(* Bounds of the input universe *)

\* most unrecognised keys in a package section
MaxExtra == 2
\* most entries of the dependencies table
MaxDeps == 2
\* most entries of the bin array
MaxBin == 2

----------------------------------------------------------------------------
(* Python values *)

Str(s) == <<"str", s>>
Arr(a) == <<"arr", a>>
Tbl(d) == <<"tbl", d>>
Ref(i) == <<"ref", i>>
Obj(r) == <<"obj", r>>
Raise(e) == <<"raise", e>>
PyNone == <<"none">>

IsRaise(x) == x[1] = "raise"
IsTbl(x) == x[1] = "tbl"
IsRef(x) == x[1] = "ref"

EmptyDict == [k \in {} |-> PyNone]

\* F applied to the value of e, which is evaluated once
With(e, F(_)) == CHOOSE r \in {F(x) : x \in {e}} : TRUE

\* d.get(k, default) / d.pop(k, default)'s result
Get(d, k, default) == IF k \in DOMAIN d THEN d[k] ELSE default

\* d after d.pop(k, None)
Pop(d, k) == With(d, LAMBDA dd : [x \in DOMAIN dd \ {k} |-> dd[x]])

\* d after d[k] = v
Set(d, k, v) == (k :> v) @@ d

\* d after d.update(e)
Update(d, e) == e @@ d

\* {k: v for k, v in d.items() if v is not None}
NotNone(d) == With(d, LAMBDA dd : [x \in {k \in DOMAIN dd : dd[k] # PyNone} |-> dd[x]])

----------------------------------------------------------------------------
(* manifest.py *)

Bin_init(x) ==
    IF DOMAIN x = {"name", "path"}
    THEN Obj([name |-> x["name"], path |-> x["path"]])
    ELSE Raise("TypeError")

Bin_to_json(self) == [name |-> self.name, path |-> self.path]

\* variant: edition is read but not popped
Package_from_json_keeps_edition(json) ==
    IF "name" \notin DOMAIN json
    THEN Raise("KeyError")
    ELSE Obj([name |-> json["name"],
              version |-> Get(json, "version", PyNone),
              edition |-> Get(json, "edition", PyNone),
              unhandled |-> Tbl(Pop(Pop(json, "name"), "version"))])

\* variant: name is popped with a default
Package_from_json_default_name(json) ==
    Obj([name |-> Get(json, "name", PyNone),
         version |-> Get(json, "version", PyNone),
         edition |-> Get(json, "edition", PyNone),
         unhandled |-> Tbl(Pop(Pop(Pop(json, "name"), "version"), "edition"))])

Package_from_json(json) ==
    LET cloned == json IN
    IF "name" \notin DOMAIN cloned
    THEN Raise("KeyError")
    ELSE Obj([name |-> cloned["name"],
              version |-> Get(cloned, "version", PyNone),
              edition |-> Get(cloned, "edition", PyNone),
              unhandled |-> Tbl(Pop(Pop(Pop(cloned, "name"), "version"), "edition"))])

Package_to_json(self) ==
    LET values == [name |-> self.name, version |-> self.version, edition |-> self.edition]
        merged == IF self.unhandled # PyNone
                  THEN Update(values, NotNone(self.unhandled[2]))
                  ELSE values
    IN  NotNone(merged)

WorkspacePackage_from_json(json) ==
    LET cloned == json IN
    IF "version" \notin DOMAIN cloned
    THEN Raise("KeyError")
    ELSE Obj([version |-> cloned["version"],
              unhandled |-> Tbl(Pop(cloned, "version"))])

WorkspacePackage_to_json(self) ==
    LET values == [version |-> self.version]
        merged == IF self.unhandled # PyNone
                  THEN Update(values, NotNone(self.unhandled[2]))
                  ELSE values
    IN  NotNone(merged)

Workspace_from_json(json) ==
    LET cloned == json
        package == IF "package" \in DOMAIN cloned
                   THEN WorkspacePackage_from_json(cloned["package"][2])
                   ELSE PyNone
        members == IF "members" \in DOMAIN cloned THEN cloned["members"] ELSE PyNone
    IN  IF IsRaise(package)
        THEN package
        ELSE Obj([package |-> package,
                  members |-> members,
                  unhandled |-> Tbl(Pop(Pop(cloned, "package"), "members"))])

Workspace_to_json(self) ==
    LET values == [package |-> IF self.package # PyNone
                               THEN Tbl(WorkspacePackage_to_json(self.package[2]))
                               ELSE PyNone]
        merged == IF self.unhandled # PyNone
                  THEN Update(values, NotNone(self.unhandled[2]))
                  ELSE values
    IN  NotNone(merged)

\* dict(json) is a shallow copy: the nested tables are the same objects (Ref)
Dependencies_from_json(json) ==
    LET cloned == json IN Obj([data |-> cloned])

Dependencies_to_json(self) == self.data

CargoManifest_of(path, data) ==
    LET package == IF "package" \in DOMAIN data
                   THEN Package_from_json(data["package"][2])
                   ELSE PyNone
        workspace == IF "workspace" \in DOMAIN data
                     THEN Workspace_from_json(data["workspace"][2])
                     ELSE PyNone
        dependencies == IF "dependencies" \in DOMAIN data
                        THEN Dependencies_from_json(data["dependencies"][2])
                        ELSE PyNone
        raw == Get(data, "bin", Arr(<<>>))[2]
        bins == [i \in 1..Len(raw) |-> Bin_init(raw[i][2])]
    IN  IF IsRaise(package) THEN package
        ELSE IF IsRaise(workspace) THEN workspace
        ELSE IF \E i \in 1..Len(raw) : IsRaise(bins[i]) THEN Raise("TypeError")
        ELSE Obj([_path |-> path,
                  _data |-> data,
                  package |-> package,
                  workspace |-> workspace,
                  dependencies |-> dependencies,
                  bin |-> [i \in 1..Len(raw) |-> bins[i][2]]])

\* variant: an empty bin list leaves the raw bin key in place
CargoManifest_to_json_keeps_bin(self) ==
    LET result == self._data
        withBin == IF Len(self.bin) > 0
                   THEN Set(result, "bin", Arr([i \in 1..Len(self.bin) |-> Tbl(Bin_to_json(self.bin[i]))]))
                   ELSE result
        withPackage == IF self.package # PyNone
                       THEN Set(withBin, "package", Tbl(Package_to_json(self.package[2])))
                       ELSE withBin
        withWorkspace == IF self.workspace # PyNone
                         THEN Set(withPackage, "workspace", Tbl(Workspace_to_json(self.workspace[2])))
                         ELSE withPackage
    IN  IF self.dependencies # PyNone
        THEN Set(withWorkspace, "dependencies", Tbl(Dependencies_to_json(self.dependencies[2])))
        ELSE withWorkspace

CargoManifest_to_json(self) ==
    LET result == self._data
        withBin == IF Len(self.bin) > 0
                   THEN Set(result, "bin", Arr([i \in 1..Len(self.bin) |-> Tbl(Bin_to_json(self.bin[i]))]))
                   ELSE Pop(result, "bin")
        withPackage == IF self.package # PyNone
                       THEN Set(withBin, "package", Tbl(Package_to_json(self.package[2])))
                       ELSE withBin
        withWorkspace == IF self.workspace # PyNone
                         THEN Set(withPackage, "workspace", Tbl(Workspace_to_json(self.workspace[2])))
                         ELSE withPackage
    IN  IF self.dependencies # PyNone
        THEN Set(withWorkspace, "dependencies", Tbl(Dependencies_to_json(self.dependencies[2])))
        ELSE withWorkspace

----------------------------------------------------------------------------
(* TOML text, by its key/value content.  Decoding builds a fresh object    *)
(* graph: every nested table of the dependencies table is a dict object of *)
(* its own, held by reference; encoding follows the references.            *)

tomli_load(content) ==
    IF "dependencies" \notin DOMAIN content
    THEN [data |-> content, heap |-> EmptyDict]
    ELSE LET deps == content["dependencies"][2]
             tables == {d \in DOMAIN deps : IsTbl(deps[d])}
         IN  [data |-> Set(content, "dependencies",
                           Tbl([d \in DOMAIN deps |-> IF d \in tables THEN Ref(d) ELSE deps[d]])),
              heap |-> [d \in tables |-> deps[d][2]]]

tomli_w_dumps(json, h) ==
    IF "dependencies" \notin DOMAIN json
    THEN json
    ELSE LET deps == json["dependencies"][2]
         IN  Set(json, "dependencies",
                 Tbl([d \in DOMAIN deps |-> IF IsRef(deps[d]) THEN Tbl(h[deps[d][2]]) ELSE deps[d]]))

\* variant: no check that package or workspace is there
CargoManifest_read_permissive(content) ==
    CargoManifest_of("Cargo.toml", tomli_load(content).data)

CargoManifest_read(content) ==
    With(CargoManifest_of("Cargo.toml", tomli_load(content).data), LAMBDA ret :
        IF IsRaise(ret) THEN ret
        ELSE IF ret[2].package = PyNone /\ ret[2].workspace = PyNone THEN Raise("ClassError")
        ELSE ret)

CargoManifest_to_toml_string(self, h) ==
    With(CargoManifest_to_json(self), LAMBDA json : tomli_w_dumps(json, h))

----------------------------------------------------------------------------
(* The input universe: the key/value content a Cargo.toml may hold *)

PackageExtras == <<"include", "authors", "metadata", "keywords">>
DepNames == <<"foo", "bar", "baz", "qux">>
BinNames == <<"bin1", "bin2", "bin3", "bin4">>

PackageValue(k) ==
    CASE k = "name" -> Str("test")
      [] k = "version" -> Str("0.1.2")
      [] k = "edition" -> Str("2021")
      [] k = "include" -> Arr(<<Str("test1"), Str("test2")>>)
      [] k = "authors" -> Arr(<<Str("author1"), Str("author2")>>)
      [] k = "metadata" -> Tbl([docs |-> Tbl([features |-> Arr(<<Str("serde")>>)])])
      [] OTHER -> Str("rust")

PackageSections(knownSets, extraCounts) ==
    {Tbl([k \in K \cup {PackageExtras[i] : i \in 1..n} |-> PackageValue(k)]) :
        K \in knownSets, n \in extraCounts}

\* a package section with a name, and one without
PackageKnown == {{"name"}, {"name", "version"}, {"name", "version", "edition"}, {"version", "edition"}}

PackageOptions == {PyNone} \cup PackageSections(PackageKnown, 0..MaxExtra)

Members == Arr(<<Str("crates/*"), Str("tools")>>)

WorkspaceOptions ==
    { PyNone,
      Tbl(EmptyDict),
      Tbl([members |-> Members]),
      Tbl([package |-> Tbl([version |-> Str("0.1.2")])]),
      Tbl([package |-> Tbl([version |-> Str("0.1.0"), edition |-> Str("2021")]),
           members |-> Members,
           resolver |-> Str("2")]),
      Tbl([package |-> Tbl([edition |-> Str("2021")])]) }

\* a plain version string, a path dependency, a registry dependency
PlainDep == Str("2.0")
PathDep == Tbl([path |-> Str("../foo"), version |-> Str("0.0.1"), features |-> Arr(<<Str("std")>>)])
RegistryDep == Tbl([version |-> Str("0.9"), registry |-> Str("other")])
DepKinds == <<PathDep, PlainDep, RegistryDep>>

\* every table of n dependencies
DepTables(n) == {Tbl([d \in {DepNames[i] : i \in 1..n} |-> k[d]]) :
                    k \in [{DepNames[i] : i \in 1..n} -> {PathDep, PlainDep, RegistryDep}]}

\* the table of n dependencies, one kind after the other
DepTable(n) == Tbl([d \in {DepNames[i] : i \in 1..n} |->
                    DepKinds[(((CHOOSE i \in 1..n : DepNames[i] = d) - 1) % 3) + 1]])

BinEntry(i) == Tbl([name |-> Str(BinNames[i]), path |-> Str("path")])

BinOptions ==
    {PyNone}
    \cup {Arr([i \in 1..n |-> BinEntry(i)]) : n \in 0..MaxBin}
    \cup {Arr([i \in 1..n |-> IF i = n THEN Tbl([name |-> Str(BinNames[i])]) ELSE BinEntry(i)]) : n \in 1..MaxBin}
    \cup {Arr([i \in 1..n |-> IF i = 1
                              THEN Tbl([name |-> Str("bin1"), path |-> Str("path"), test |-> Str("false")])
                              ELSE BinEntry(i)]) : n \in 1..MaxBin}

OtherOptions == {PyNone, Tbl([default |-> Arr(<<Str("std")>>)])}

MkTree(p, w, d, b, o) ==
    NotNone([package |-> p, workspace |-> w, dependencies |-> d, bin |-> b, features |-> o])

Trees ==
    {MkTree(p, w, d, b, o) :
        p \in PackageOptions, w \in WorkspaceOptions,
        d \in {PyNone} \cup {DepTable(n) : n \in 0..MaxDeps},
        b \in BinOptions, o \in OtherOptions}

TaskTrees ==
    {MkTree(p, w, d, b, PyNone) :
        p \in PackageOptions,
        w \in WorkspaceOptions,
        d \in {PyNone} \cup UNION {DepTables(n) : n \in 0..MaxDeps},
        b \in {PyNone, Arr(<<BinEntry(1)>>)}}

----------------------------------------------------------------------------
(* The manifest API, as a client calls it on the file's content *)

NoCall == [op |-> "none", raised |-> PyNone]

InitTaskVars ==
    /\ pc = "idle"
    /\ props = [version |-> "", registry |-> PyNone, revert |-> FALSE]
    /\ exit_stack = <<>>

Init ==
    /\ disk \in Trees
    /\ original = disk
    /\ heap = EmptyDict
    /\ manifest = PyNone
    /\ out = PyNone
    /\ call = NoCall
    /\ InitTaskVars

\* manifest = CargoManifest.of(path, data)
Of ==
    LET loaded == tomli_load(disk)
        ret == CargoManifest_of("Cargo.toml", loaded.data)
    IN  /\ call' = [op |-> "of", raised |-> IF IsRaise(ret) THEN ret ELSE PyNone]
        /\ manifest' = IF IsRaise(ret) THEN PyNone ELSE ret
        /\ heap' = IF IsRaise(ret) THEN EmptyDict ELSE loaded.heap
        /\ UNCHANGED <<disk, original, out, pc, props, exit_stack>>

\* manifest = CargoManifest.read(path)
Read ==
    LET ret == CargoManifest_read(disk)
    IN  /\ call' = [op |-> "read", raised |-> IF IsRaise(ret) THEN ret ELSE PyNone]
        /\ manifest' = IF IsRaise(ret) THEN PyNone ELSE ret
        /\ heap' = IF IsRaise(ret) THEN EmptyDict ELSE tomli_load(disk).heap
        /\ UNCHANGED <<disk, original, out, pc, props, exit_stack>>

\* out = manifest.to_json()
ToJson ==
    /\ manifest # PyNone
    /\ out' = Tbl(CargoManifest_to_json(manifest[2]))
    /\ call' = [op |-> "to_json", raised |-> PyNone]
    /\ UNCHANGED <<disk, original, heap, manifest, pc, props, exit_stack>>

\* manifest.bin = []
ClearBin ==
    /\ manifest # PyNone
    /\ Len(manifest[2].bin) > 0
    /\ manifest' = Obj([manifest[2] EXCEPT !.bin = <<>>])
    /\ call' = [op |-> "bin", raised |-> PyNone]
    /\ UNCHANGED <<disk, original, heap, out, pc, props, exit_stack>>

Next == Of \/ Read \/ ToJson \/ ClearBin

Spec == Init /\ [][Next]_vars

----------------------------------------------------------------------------
(* cargo_bump_version_task.py *)

\* the aliases of cargo.registries, and the target versions a build supplies
Registries == {"myreg"}
Versions == {"1.2.3", "3.0.0"}
RegistryInputs == {PyNone, Str("myreg"), Str("unknown")}

\* variant: no test for the path key
push_version_to_all_tables(m, h, version, registry_alias) ==
    IF m.dependencies # PyNone
    THEN LET dependencies == m.dependencies[2].data
         IN  [i \in DOMAIN h |->
                 IF \E dep_name \in DOMAIN dependencies : dependencies[dep_name] = Ref(i)
                 THEN Set(Set(h[i], "version", Str(version)), "registry", Str(registry_alias))
                 ELSE h[i]]
    ELSE h

\* the heap after the loop over manifest.dependencies.data
push_version_to_path_deps(m, h, version, registry_alias) ==
    IF m.dependencies # PyNone
    THEN LET dependencies == m.dependencies[2].data
         IN  [i \in DOMAIN h |->
                 IF /\ \E dep_name \in DOMAIN dependencies : dependencies[dep_name] = Ref(i)
                    /\ "path" \in DOMAIN h[i]
                 THEN Set(Set(h[i], "version", Str(version)), "registry", Str(registry_alias))
                 ELSE h[i]]
    ELSE h

\* variant: workspace.package.version is left alone
set_versions_package_only(m, version) ==
    [m EXCEPT !.package = Obj([m.package[2] EXCEPT !.version = Str(version)])]

\* the manifest after "manifest.package.version = ..." and
\* "manifest.workspace.package.version = ..."
set_versions(m, version) ==
    LET m1 == [m EXCEPT !.package = Obj([m.package[2] EXCEPT !.version = Str(version)])]
    IN  IF m1.workspace # PyNone /\ m1.workspace[2].package # PyNone
        THEN [m1 EXCEPT !.workspace = Obj([m1.workspace[2] EXCEPT !.package =
                 Obj([m1.workspace[2].package[2] EXCEPT !.version = Str(version)])])]
        ELSE m1

\* what _get_updated_cargo_toml returns or raises, with the manifest and the
\* heap it leaves behind
get_updated_cargo_toml(file, version, registry) ==
    With(CargoManifest_read(file), LAMBDA ret :
    With(tomli_load(file).heap, LAMBDA h :
        IF IsRaise(ret)
        THEN [raised |-> ret, content |-> PyNone, manifest |-> PyNone, heap |-> EmptyDict]
        ELSE IF ret[2].package = PyNone
        THEN [raised |-> PyNone, content |-> CargoManifest_to_toml_string(ret[2], h),
              manifest |-> ret, heap |-> h]
        ELSE With(set_versions(ret[2], version), LAMBDA m :
             IF registry = PyNone
             THEN [raised |-> PyNone, content |-> CargoManifest_to_toml_string(m, h),
                   manifest |-> Obj(m), heap |-> h]
             ELSE IF registry[2] \notin Registries
             THEN [raised |-> Raise("KeyError"), content |-> PyNone, manifest |-> PyNone,
                   heap |-> EmptyDict]
             ELSE With(push_version_to_path_deps(m, h, version, registry[2]), LAMBDA h2 :
                  [raised |-> PyNone, content |-> CargoManifest_to_toml_string(m, h2),
                   manifest |-> Obj(m), heap |-> h2]))))

\* kraken.core.util.fs.atomic_file_swap: entering moves the file's content
\* aside; leaving without an exception puts it back if always_revert
atomic_file_swap(old, always_revert) == [old |-> old, always_revert |-> always_revert]

swap_exit(ctx, file) == IF ctx.always_revert THEN ctx.old ELSE file

\* ExitStack.close(): the contexts are left last entered first
RECURSIVE ExitStack_close(_, _)
ExitStack_close(stack, file) ==
    IF stack = <<>> THEN file
    ELSE ExitStack_close(SubSeq(stack, 1, Len(stack) - 1), swap_exit(stack[Len(stack)], file))

\* variant: always_revert is not passed on
start_background_task_never_reverts(file, p) ==
    With(get_updated_cargo_toml(file, p.version, p.registry), LAMBDA u :
        IF u.raised # PyNone
        THEN [raised |-> u.raised, entered |-> <<>>, file |-> file, status |-> "failed",
              manifest |-> u.manifest, heap |-> u.heap]
        ELSE [raised |-> PyNone,
              entered |-> <<atomic_file_swap(file, FALSE)>>,
              file |-> u.content,
              status |-> IF p.revert THEN "started" ELSE "succeeded",
              manifest |-> u.manifest, heap |-> u.heap])

\* what start_background_task leaves: the contexts entered, the file, the status
start_background_task(file, p) ==
    With(get_updated_cargo_toml(file, p.version, p.registry), LAMBDA u :
        IF u.raised # PyNone
        THEN [raised |-> u.raised, entered |-> <<>>, file |-> file, status |-> "failed",
              manifest |-> u.manifest, heap |-> u.heap]
        ELSE [raised |-> PyNone,
              entered |-> <<atomic_file_swap(file, p.revert)>>,
              file |-> u.content,
              status |-> IF p.revert THEN "started" ELSE "succeeded",
              manifest |-> u.manifest, heap |-> u.heap])

InitTask ==
    /\ disk \in TaskTrees
    /\ original = disk
    /\ heap = EmptyDict
    /\ manifest = PyNone
    /\ out = PyNone
    /\ call = NoCall
    /\ InitTaskVars

StartBackgroundTask(version, registry, revert) ==
    /\ pc = "idle"
    /\ props' = [version |-> version, registry |-> registry, revert |-> revert]
    /\ \E r \in {start_background_task(disk, props')} :
           /\ call' = [op |-> "start_background_task", raised |-> r.raised]
           /\ exit_stack' = exit_stack \o r.entered
           /\ disk' = r.file
           /\ manifest' = r.manifest
           /\ heap' = r.heap
           /\ pc' = r.status
    /\ UNCHANGED <<original, out>>

\* the operation the temporary bump is for (a publish) ends, well or not
DependentOperation(outcome) ==
    /\ pc = "started"
    /\ pc' = "finished"
    /\ call' = [op |-> "dependent_operation", raised |-> outcome]
    /\ UNCHANGED <<disk, original, heap, manifest, out, props, exit_stack>>

\* the framework closes the task's exit stack
Teardown ==
    /\ pc \in {"succeeded", "finished"}
    /\ disk' = ExitStack_close(exit_stack, disk)
    /\ exit_stack' = <<>>
    /\ pc' = "done"
    /\ UNCHANGED <<original, heap, manifest, out, call, props>>

NextTask ==
    \/ \E version \in Versions, registry \in RegistryInputs, revert \in BOOLEAN :
          StartBackgroundTask(version, registry, revert)
    \/ \E outcome \in {PyNone, Raise("Error")} : DependentOperation(outcome)
    \/ Teardown

SpecTask == InitTask /\ [][NextTask]_vars

----------------------------------------------------------------------------
(* Properties *)

\* the shape of a tree, read off the tree itself
HasPackage(T) == "package" \in DOMAIN T
HasWorkspace(T) == "workspace" \in DOMAIN T
HasWorkspacePackage(T) == HasWorkspace(T) /\ "package" \in DOMAIN T["workspace"][2]
PackageWellFormed(T) == HasPackage(T) => "name" \in DOMAIN T["package"][2]
WorkspaceWellFormed(T) ==
    HasWorkspacePackage(T) => "version" \in DOMAIN T["workspace"][2]["package"][2]
BinWellFormed(T) ==
    "bin" \in DOMAIN T =>
        \A i \in 1..Len(T["bin"][2]) : DOMAIN T["bin"][2][i][2] = {"name", "path"}
DependenciesOf(T) == IF "dependencies" \in DOMAIN T THEN T["dependencies"][2] ELSE EmptyDict
IsPathDep(v) == IsTbl(v) /\ "path" \in DOMAIN v[2]

\* the manifest is the one CargoManifest.of builds from the file's tree, untouched
Parsed == manifest = CargoManifest_of("Cargo.toml", tomli_load(disk).data)
\* the bump task has just written its content
Bumped == call.op = "start_background_task" /\ call.raised = PyNone

\* C1: round trip. For every tree T that CargoManifest.of accepts,
\* CargoManifest.of(path, T).to_json() equals T by key/value equality. Stated
\* here for the trees that hold no empty bin array (an empty bin array is
\* left out of the output by design, see C9).
C1_RoundTrip ==
    (call.op = "to_json" /\ Parsed /\ Get(disk, "bin", PyNone) # Arr(<<>>))
        => tomli_w_dumps(out[2], heap) = disk

\* C2: unknown-field preservation. Package.from_json puts exactly the keys
\* other than name, version and edition into unhandled, values unchanged (so
\* n extra keys give an unhandled mapping of size n), and to_json gives each
\* of them back under package with its original value.
C2_UnknownFieldsPreserved ==
    (manifest # PyNone /\ manifest[2].package # PyNone) =>
        LET section == disk["package"][2]
            extra == DOMAIN section \ {"name", "version", "edition"}
            unhandled == manifest[2].package[2].unhandled
        IN  /\ unhandled # PyNone
            /\ DOMAIN unhandled[2] = extra
            /\ Cardinality(DOMAIN unhandled[2]) = Cardinality(extra)
            /\ \A k \in extra : unhandled[2][k] = section[k]
            /\ call.op = "to_json" =>
                   /\ "package" \in DOMAIN out[2]
                   /\ \A k \in extra : /\ k \in DOMAIN out[2]["package"][2]
                                       /\ out[2]["package"][2][k] = section[k]

C2_Witness ==
    /\ call.op = "to_json"
    /\ manifest[2].package # PyNone
    /\ DOMAIN manifest[2].package[2].unhandled[2] = {"include", "authors"}
    /\ Len(out[2]["package"][2]["include"][2]) = 2

\* C3: version bump with a registry alias, on a manifest with a package
\* section. In the content written and in the document, every dependency
\* whose specification is a table with a path key has version = the target
\* version and registry = the alias, its other keys unchanged; every other
\* dependency is exactly as it was; package.version is the target version.
C3_PathDepsBumped ==
    (Bumped /\ props.registry # PyNone /\ HasPackage(original)) =>
        LET target == Str(props.version)
            before == DependenciesOf(original)
            after == DependenciesOf(disk)
            inMemory == DependenciesOf(tomli_w_dumps(manifest[2]._data, heap))
        IN  /\ manifest[2].package[2].version = target
            /\ disk["package"][2]["version"] = target
            /\ ("dependencies" \in DOMAIN disk) = ("dependencies" \in DOMAIN original)
            /\ DOMAIN after = DOMAIN before
            /\ manifest[2].dependencies # PyNone =>
                   tomli_w_dumps([dependencies |-> Tbl(manifest[2].dependencies[2].data)], heap)
                       = [dependencies |-> Tbl(after)]
            /\ \A d \in DOMAIN before :
                   IF IsPathDep(before[d])
                   THEN /\ IsTbl(after[d])
                        /\ DOMAIN after[d][2] = DOMAIN before[d][2] \cup {"version", "registry"}
                        /\ after[d][2]["version"] = target
                        /\ after[d][2]["registry"] = props.registry
                        /\ \A k \in DOMAIN before[d][2] \ {"version", "registry"} :
                               after[d][2][k] = before[d][2][k]
                   ELSE after[d] = before[d]

C3_Witness ==
    /\ Bumped
    /\ props.registry = Str("myreg")
    /\ HasPackage(original)
    /\ \E d \in DOMAIN DependenciesOf(original) : IsPathDep(DependenciesOf(original)[d])
    /\ \E d \in DOMAIN DependenciesOf(original) : DependenciesOf(original)[d] = PlainDep
    /\ \E d \in DOMAIN DependenciesOf(disk) :
           /\ IsPathDep(DependenciesOf(disk)[d])
           /\ DependenciesOf(disk)[d][2]["registry"] = Str("myreg")
           /\ DependenciesOf(disk)[d][2]["version"] = Str(props.version)

\* C4: temporary and permanent bump. Once the exit stack is closed, with
\* revert the file holds its original content again, whether the dependent
\* operation ended well or failed; without revert it holds the bumped
\* content. A task that raised has left the file as it was.
C4_RevertOrPersist ==
    /\ (pc = "done" /\ props.revert) => disk = original
    /\ (pc = "done" /\ ~props.revert) =>
           /\ disk = CargoManifest_to_toml_string(manifest[2], heap)
           /\ HasPackage(original) => disk["package"][2]["version"] = Str(props.version)
    /\ pc = "failed" => (disk = original /\ exit_stack = <<>>)

C4_Witness ==
    /\ pc = "done"
    /\ props.revert
    /\ call = [op |-> "dependent_operation", raised |-> Raise("Error")]
    /\ disk = original
    /\ CargoManifest_to_toml_string(manifest[2], heap) # original

\* C5 as first stated: of succeeds on every tree with neither package nor
\* workspace, read of that tree raises ClassError, and read succeeds as soon
\* as one of the two sections is present and well-formed.
C5_AsStated ==
    LET neither == ~HasPackage(disk) /\ ~HasWorkspace(disk)
        oneGood == \/ HasPackage(disk) /\ PackageWellFormed(disk)
                   \/ HasWorkspace(disk) /\ WorkspaceWellFormed(disk)
    IN  /\ (call.op = "of" /\ neither) =>
               /\ call.raised = PyNone
               /\ manifest # PyNone
               /\ manifest[2].package = PyNone /\ manifest[2].workspace = PyNone
        /\ (call.op = "read" /\ neither) => call.raised = Raise("ClassError")
        /\ (call.op = "read" /\ oneGood) => (call.raised = PyNone /\ manifest # PyNone)

\* C5: strict and permissive loading. On a tree with neither package nor
\* workspace whose bin entries are well-formed, of succeeds with both fields
\* None and read raises ClassError; read succeeds whenever at least one of
\* the two sections is present and every section present (package,
\* workspace.package, each bin entry) is well-formed.
C5_StrictVsPermissive ==
    LET neither == ~HasPackage(disk) /\ ~HasWorkspace(disk)
        wellFormed == PackageWellFormed(disk) /\ WorkspaceWellFormed(disk) /\ BinWellFormed(disk)
    IN  /\ (call.op = "of" /\ neither /\ BinWellFormed(disk)) =>
               /\ call.raised = PyNone
               /\ manifest # PyNone
               /\ manifest[2].package = PyNone /\ manifest[2].workspace = PyNone
        /\ (call.op = "read" /\ neither /\ BinWellFormed(disk)) =>
               (call.raised = Raise("ClassError") /\ manifest = PyNone)
        /\ (call.op = "read" /\ ~neither /\ wellFormed) =>
               (call.raised = PyNone /\ manifest # PyNone)

C5_Witness ==
    /\ call = [op |-> "read", raised |-> Raise("ClassError")]
    /\ ~HasPackage(disk) /\ ~HasWorkspace(disk)
    /\ "dependencies" \in DOMAIN disk
    /\ CargoManifest_of("Cargo.toml", tomli_load(disk).data)[2].package = PyNone

\* C6: workspace and package version in step. After a bump to V of a
\* manifest with a package section and a workspace.package section, both
\* package.version and workspace.package.version are V, in the document and
\* in the content written.
C6_VersionsInStep ==
    (Bumped /\ HasPackage(original) /\ HasWorkspacePackage(original)) =>
        LET target == Str(props.version)
        IN  /\ manifest[2].package[2].version = target
            /\ manifest[2].workspace[2].package[2].version = target
            /\ disk["package"][2]["version"] = target
            /\ disk["workspace"][2]["package"][2]["version"] = target

C6_Witness ==
    /\ Bumped
    /\ props.version = "3.0.0"
    /\ HasPackage(original) /\ HasWorkspacePackage(original)
    /\ original["workspace"][2]["package"][2]["version"] = Str("0.1.0")
    /\ Get(original["package"][2], "version", PyNone) = Str("0.1.2")
    /\ disk["workspace"][2]["package"][2]["version"] = Str("3.0.0")

\* C7: a bump of a manifest with no package section is a no-op: the content
\* written equals the original content, whatever the version and registry.
C7_NoPackageNoOp ==
    (Bumped /\ ~HasPackage(original)) => disk = original

\* C8: parse-time rejection is total. If package lacks name, or
\* workspace.package lacks version, or a bin entry has fields other than
\* exactly name and path, both of and read raise and return no document.
C8_MalformedRejected ==
    (call.op \in {"of", "read"}
        /\ ~(PackageWellFormed(disk) /\ WorkspaceWellFormed(disk) /\ BinWellFormed(disk))) =>
        /\ call.raised \in {Raise("KeyError"), Raise("TypeError")}
        /\ manifest = PyNone
        /\ ~PackageWellFormed(disk) => call.raised = Raise("KeyError")

C8_Witness ==
    /\ call = [op |-> "of", raised |-> Raise("KeyError")]
    /\ HasPackage(disk) /\ ~PackageWellFormed(disk)
    /\ WorkspaceWellFormed(disk) /\ BinWellFormed(disk)
    /\ manifest = PyNone

\* C9: conditional bin emission. When the document's bin list is empty (bin
\* absent from the tree, an empty array, or emptied after the parse) the
\* output of to_json has no bin key; otherwise bin is an array with one
\* {name, path} mapping per entry, in order.
C9_BinEmission ==
    call.op = "to_json" =>
        LET bin == manifest[2].bin
        IN  IF Len(bin) = 0
            THEN "bin" \notin DOMAIN out[2]
            ELSE /\ "bin" \in DOMAIN out[2]
                 /\ out[2]["bin"] = Arr([i \in 1..Len(bin) |->
                                          Tbl([name |-> bin[i].name, path |-> bin[i].path])])

C9_Witness ==
    /\ call.op = "to_json"
    /\ Len(manifest[2].bin) = 0
    /\ "bin" \in DOMAIN disk
    /\ Len(disk["bin"][2]) = MaxBin
    /\ "bin" \notin DOMAIN out[2]

\* C10: the raw tree is retained unmodified. After a bump, the tree the
\* document retains (_data), its dependencies' tables included, still equals
\* the tree the document was parsed from.
C10_RawTreeUnmodified ==
    manifest # PyNone => tomli_w_dumps(manifest[2]._data, heap) = original

====
